---- MODULE Spec2Model ----
(***************************************************************************)
(* Model of tutel/impls/fast_dispatch.py and tutel/impls/jit_compiler.py:  *)
(* the slot assigner extract_critical, the dispatcher                      *)
(* TutelMoeFastDispatcher with its process-wide kernel_pool, and the       *)
(* autograd functions GatingEncoder / GatingDecoder.                       *)
(*                                                                         *)
(* Tokens are numbered 1..T (positions of a sequence, in token order),     *)
(* experts 0..E-1 and locations from 0, as in the source.  A gate matrix   *)
(* is a sequence of rows, a row a function from experts to scores.         *)
(***************************************************************************)
EXTENDS Integers, Sequences, FiniteSets, TLC

VARIABLES
  pc, call, ret,        \* a call of extract_critical and its return value
  IS_HIP_EXTENSION,     \* jit_compiler.IS_HIP_EXTENSION, fixed per process
  kernel_pool,          \* TutelMoeFastDispatcher.kernel_pool (class attribute)
  dispatcher,           \* the TutelMoeFastDispatcher object in use
  ctx,                  \* the autograd context of the last forward pass
  last                  \* the last call on the dispatch path and its result

vars == <<pc, call, ret, IS_HIP_EXTENSION, kernel_pool, dispatcher, ctx, last>>

assign_vars == <<pc, call, ret>>
dispatch_vars == <<IS_HIP_EXTENSION, kernel_pool, dispatcher, ctx, last>>

(***************************************************************************)
(* Bounds of the model.                                                    *)
(***************************************************************************)
MaxTokens == 4
MaxExperts == 3
\* a gate matrix has at most MaxCells entries (tokens * experts)
MaxCells == 6
Scores == {0, 1, 2}
\* capacity_factor as a fraction <<numerator, denominator>>: 0.5, 1.0, 1.25
CapacityFactors == {<<1, 2>>, <<1, 1>>, <<5, 4>>}

(***************************************************************************)
(* Arithmetic helpers.                                                     *)
(***************************************************************************)
Range(s) == {s[i] : i \in DOMAIN s}

RECURSIVE SumSeq(_)
SumSeq(s) == IF s = <<>> THEN 0 ELSE Head(s) + SumSeq(Tail(s))

\* sum of f[e] over the (finite) domain of the function f
RECURSIVE SumFun(_, _)
SumFun(f, S) ==
  IF S = {} THEN 0
  ELSE LET e == CHOOSE x \in S : TRUE IN f[e] + SumFun(f, S \ {e})

RECURSIVE Gcd(_, _)
Gcd(a, b) == IF b = 0 THEN a ELSE Gcd(b, a % b)

\* a non-negative fraction n/d in lowest terms, as <<n, d>>
Rat(n, d) == LET g == Gcd(n, d) IN <<n \div g, d \div g>>

Max(S) == CHOOSE m \in S : \A x \in S : x <= m

(***************************************************************************)
(* torch.topk(gates, top_k, dim=1).indices: per token the top_k experts,   *)
(* highest score first.  The order among equal scores is not specified by  *)
(* the library, so every order is a possible outcome.                      *)
(***************************************************************************)
topk_row(row, k) ==
  {sel \in [1..k -> DOMAIN row] :
     /\ \A i, j \in 1..k : i # j => sel[i] # sel[j]
     /\ \A i \in 1..(k - 1) : row[sel[i]] >= row[sel[i + 1]]
     /\ \A e \in DOMAIN row \ Range(sel) : row[e] <= row[sel[k]]}

RECURSIVE topk(_, _)
topk(gates, k) ==
  IF gates = <<>> THEN {<<>>}
  ELSE {<<h>> \o r : h \in topk_row(Head(gates), k), r \in topk(Tail(gates), k)}

(***************************************************************************)
(* Tensor.argsort(dim=0), ascending: a permutation p of the tokens with    *)
(* x[p[1]] <= x[p[2]] <= ...; the order among equal values is unspecified. *)
(***************************************************************************)
argsort(x) ==
  {p \in [DOMAIN x -> DOMAIN x] :
     /\ \A i, j \in DOMAIN x : i # j => p[i] # p[j]
     /\ \A i, j \in DOMAIN x : i < j => x[p[i]] <= x[p[j]]}

\* argsort of a permutation (no equal values): its inverse
argsort_perm(p) == [t \in DOMAIN p |-> CHOOSE i \in DOMAIN p : p[i] = t]

(***************************************************************************)
(* one_hot_with_dtype(data, num_classes, dtype)                            *)
(***************************************************************************)
one_hot_with_dtype(data, num_classes) ==
  [t \in DOMAIN data |-> [e \in 0..(num_classes - 1) |-> IF data[t] = e THEN 1 ELSE 0]]

(***************************************************************************)
(* jit_kernels.gating.fast_cumsum_sub_one: the cumulative sum along the    *)
(* token axis, minus one.                                                  *)
(***************************************************************************)
fast_cumsum_sub_one(x) ==
  [t \in DOMAIN x |->
     [e \in DOMAIN x[t] |-> SumSeq([s \in 1..t |-> x[s][e]]) - 1]]

\* elementwise product of two [token][expert] matrices
MatMul(a, b) == [t \in DOMAIN a |-> [e \in DOMAIN a[t] |-> a[t][e] * b[t][e]]]

\* torch.sum(m, dim=0, keepdim=True): per expert, the sum over the tokens
ColSum(m, E) == [e \in 0..(E - 1) |-> SumSeq([t \in DOMAIN m |-> m[t][e]])]

\* torch.sum(m, dim=1): per token, the sum over the experts
RowSum(m) == [t \in DOMAIN m |-> SumFun(m[t], DOMAIN m[t])]

(***************************************************************************)
(* compute_sorted_location(x, importance_scores); order is the value of    *)
(* importance_scores.argsort(dim=0), the same at both places it is taken.  *)
(***************************************************************************)
\* a faulty variant: the sort permutation applied again instead of undone
compute_sorted_location_reapplied(x, order) ==
  LET sorted_x == [i \in DOMAIN x |-> x[order[i]]]
      sorted_cumsum == MatMul(fast_cumsum_sub_one(sorted_x), sorted_x)
  IN [t \in DOMAIN x |-> sorted_cumsum[order[t]]]

compute_sorted_location(x, order) ==
  LET sorted_x == [i \in DOMAIN x |-> x[order[i]]]
      sorted_cumsum == MatMul(fast_cumsum_sub_one(sorted_x), sorted_x)
      back == argsort_perm(order)
  IN [t \in DOMAIN x |-> sorted_cumsum[back[t]]]

\* a faulty variant: the sign of the importance scores dropped
importance_scores_unsigned(gates) == [t \in DOMAIN gates |-> Max(Range(gates[t]))]

\* importance_scores = -1 * gates.max(dim=1)[0]
importance_scores(gates) == [t \in DOMAIN gates |-> 0 - Max(Range(gates[t]))]

\* the compute_location selected by batch_prioritized_routing
compute_location(x, prio, order) ==
  IF prio THEN compute_sorted_location(x, order) ELSE fast_cumsum_sub_one(x)

(***************************************************************************)
(* load_balance: both branches compute E * sum(me * ce) / T^2, the float32 *)
(* branch from sums, the other from means; the value is kept as a fraction.*)
(***************************************************************************)
load_balance(gates, mask1, num_global_experts) ==
  LET me == ColSum(gates, num_global_experts)
      ce == ColSum(mask1, num_global_experts)
      prod == [e \in DOMAIN me |-> me[e] * ce[e]]
  IN Rat(SumFun(prod, DOMAIN prod) * num_global_experts, Len(gates) * Len(gates))

(***************************************************************************)
(* extract_critical, the parts of its body.                                *)
(***************************************************************************)
\* a faulty variant: the base not accumulated: only the rank just below counted
acc_base_last_rank(masks_se, k, E) ==
  [e \in 0..(E - 1) |-> IF k > 1 THEN ColSum(masks_se[k - 1], E)[e] ELSE 0]

\* acc_base before rank k (ranks from 1 here, 0 in the source): the column
\* sums of masks_se[1..k-1]
acc_base(masks_se, k, E) ==
  [e \in 0..(E - 1) |-> SumSeq([j \in 1..(k - 1) |-> ColSum(masks_se[j], E)[e]])]

\* locations_s[k]
locations_k(masks_se, k, E, prio, order) ==
  LET loc == compute_location(masks_se[k], prio, order)
      base == acc_base(masks_se, k, E)
      loc2 == [t \in DOMAIN loc |-> [e \in DOMAIN loc[t] |-> loc[t][e] + base[e]]]
  IN RowSum(MatMul(IF k = 1 THEN loc ELSE loc2, masks_se[k]))

\* gates_s, normalised when top_k > 1: x / clamp(sum(gates_s), min=eps)
normalized_gates(gates, masks_se, top_k) ==
  LET raw == [k \in 1..top_k |-> RowSum(MatMul(gates, masks_se[k]))]
      denom == [t \in DOMAIN gates |-> SumSeq([k \in 1..top_k |-> raw[k][t]])]
  IN [k \in 1..top_k |->
        [t \in DOMAIN gates |->
           IF top_k > 1
           THEN (IF denom[t] > 0 THEN Rat(raw[k][t], denom[t]) ELSE <<0, 1>>)
           ELSE <<raw[k][t], 1>>]]

\* a faulty variant: tokens per expert rounded down instead of up
capacity_of_floor(T, E, top_k, cf) ==
  top_k * ((cf[1] * (T \div E)) \div cf[2])

\* capacity = top_k * int(capacity_factor * ((T + E - 1) // E))
capacity_of(T, E, top_k, cf) ==
  top_k * ((cf[1] * ((T + E - 1) \div E)) \div cf[2])

extract_critical(gates, top_k, cf, prio, topk_indices, order) ==
  LET num_global_experts == Cardinality(DOMAIN gates[1])
      indices_s == [k \in 1..top_k |-> [t \in DOMAIN gates |-> topk_indices[t][k]]]
      masks_se == [k \in 1..top_k |-> one_hot_with_dtype(indices_s[k], num_global_experts)]
  IN [num_global_experts |-> num_global_experts,
      indices_s |-> indices_s,
      locations_s |-> [k \in 1..top_k |->
                         locations_k(masks_se, k, num_global_experts, prio, order)],
      gates_s |-> normalized_gates(gates, masks_se, top_k),
      capacity |-> capacity_of(Len(gates), num_global_experts, top_k, cf),
      l_loss |-> load_balance(gates, masks_se[1], num_global_experts),
      order |-> order]

Identity(T) == [t \in 1..T |-> t]

\* the arguments of a call of extract_critical
Args(gates, top_k, cf, prio) ==
  [gates |-> gates, top_k |-> top_k, capacity_factor |-> cf,
   batch_prioritized_routing |-> prio]

\* the values extract_critical can return on the arguments c
Returns(c) ==
  {extract_critical(c.gates, c.top_k, c.capacity_factor, c.batch_prioritized_routing,
                    tk, order) :
     tk \in topk(c.gates, c.top_k),
     order \in (IF c.batch_prioritized_routing
                THEN argsort(importance_scores(c.gates))
                ELSE {Identity(Len(c.gates))})}

\* the calls of extract_critical on the arguments of a set, with their results
Calls(arguments) ==
  UNION {{[args |-> c, critical_data |-> r] : r \in Returns(c)} : c \in arguments}

NoArgs == Args(<<[e \in {0} |-> 0]>>, 1, <<1, 1>>, FALSE)
NoReturn == CHOOSE r \in Returns(NoArgs) : TRUE

(***************************************************************************)
(* Tensors of the dispatch path.  A value is a non-negative fraction       *)
(* <<n, d>> (small values, exact in every float width); a data tensor is   *)
(* [dtype, val] with val a sequence of rows and a row a sequence of        *)
(* model_dim values; x.to(dtype) changes the dtype and keeps the values.   *)
(***************************************************************************)
Zero == <<0, 1>>
One == <<1, 1>>
RatAdd(a, b) == Rat(a[1] * b[2] + b[1] * a[2], a[2] * b[2])
RatMul(a, b) == Rat(a[1] * b[1], a[2] * b[2])

RowScale(w, r) == [f \in DOMAIN r |-> RatMul(w, r[f])]
RowAdd(r1, r2) == [f \in DOMAIN r1 |-> RatAdd(r1[f], r2[f])]
ZeroRow(dim) == [f \in 1..dim |-> Zero]
Dot(r1, r2) == LET p == [f \in DOMAIN r1 |-> RatMul(r1[f], r2[f])]
               IN IF p = <<>> THEN Zero
                  ELSE LET RECURSIVE acc(_)
                           acc(f) == IF f = 0 THEN Zero ELSE RatAdd(p[f], acc(f - 1))
                       IN acc(Len(p))

\* torch.zeros([rows, dim])
zeros(rows, dim) == [r \in 1..rows |-> ZeroRow(dim)]

to(x, dtype) == [x EXCEPT !.dtype = dtype]

Min(a, b) == IF a < b THEN a ELSE b

(***************************************************************************)
(* Kernel handles.  jit_kernel.create_forward / create_backward_data /     *)
(* create_backward_gate(dtype, is_cuda) return a handle specialised for    *)
(* the pair, and fail for a dtype the backend does not support.  The CPU   *)
(* backend supports float32 and float64 (jit_compiler.py, lines 36-41).    *)
(***************************************************************************)
CpuSupported == {"float32", "float64"}
CudaSupported == {"float16", "float32"}

Supported(dtype, is_cuda) ==
  IF is_cuda = "True" THEN dtype \in CudaSupported ELSE dtype \in CpuSupported

create_kernel(op, dtype, is_cuda) == [op |-> op, dtype |-> dtype, is_cuda |-> is_cuda]

NoHandle == [op |-> "unbound", dtype |-> "none", is_cuda |-> "None"]

\* a gate tensor handed to a primitive: a gates_ stream, or ones_helper
GatesTensor(dtype, val) ==
  [kind |-> "gates", dtype |-> dtype, val |-> val, len |-> Len(val), is_cuda |-> "None"]

\* torch.ones([sample_size, 2], dtype, device)
OnesTensor(sample_size, dtype, is_cuda) ==
  [kind |-> "ones", dtype |-> dtype, val |-> <<>>, len |-> sample_size, is_cuda |-> is_cuda]

NoOnes == [kind |-> "unbound", dtype |-> "none", val |-> <<>>, len |-> 0, is_cuda |-> "None"]

(***************************************************************************)
(* What a primitive finds in its gate argument.  A float16 gate stream is  *)
(* one 2-element row per token (line 19); any other is read as one element *)
(* per token, of which ones_helper, of shape [sample_size, 2], holds two   *)
(* per row (line 107).  A read past the end yields whatever the memory     *)
(* holds: junk[t].                                                         *)
(***************************************************************************)
Weights(g) ==
  IF g.kind = "ones" THEN (IF g.dtype = "float16" THEN g.len ELSE 2 * g.len)
  ELSE g.len

ReadGate(g, t, junk) ==
  IF t <= Weights(g) THEN (IF g.kind = "ones" THEN One ELSE g.val[t]) ELSE junk[t]

(***************************************************************************)
(* The outcome class of invoking a handle on tensors of the given dtypes.  *)
(* A handle made by generate_cpu_kernel selects on inputs[0].dtype when it *)
(* is called and raises for anything but float32 / float64; a handle       *)
(* compiled for one dtype and run on tensors of another reads their bytes  *)
(* as the wrong type (undefined).                                          *)
(***************************************************************************)
generate_cpu_kernel(first_dtype, data_dtype) ==
  IF first_dtype \notin CpuSupported THEN "unsupported dtype"
  ELSE IF first_dtype # data_dtype THEN "undefined" ELSE "ok"

KernelStatus(h, first_dtype, data_dtype) ==
  IF h.op = "unbound" THEN "AttributeError"
  ELSE IF h.is_cuda = "False" THEN generate_cpu_kernel(first_dtype, data_dtype)
  ELSE IF h.dtype # first_dtype \/ h.dtype # data_dtype THEN "undefined"
  ELSE "ok"

\* the weights a primitive works with
GateVector(g, n, status, junk) ==
  [t \in 1..n |-> IF status = "undefined" THEN junk[t] ELSE ReadGate(g, t, junk)]

(***************************************************************************)
(* The three primitives of jit_kernels.sparse, by their contract.          *)
(* Buffer row index[t] * capacity + location[t] is row number              *)
(* index[t] * capacity + location[t] + 1 of the sequence.                  *)
(***************************************************************************)
Slot(i, l, t, cap) == i[t] * cap + l[t] + 1

Kept(i, l, t, n, cap) == t <= n /\ t <= Len(i) /\ t <= Len(l) /\ l[t] < cap

\* forward scatter: dst[index*capacity + location] += gate * src, for the
\* tokens with location < capacity
forward_scatter(w, i, l, src, dst, n, cap) ==
  LET RECURSIVE acc(_, _)
      acc(r, t) ==
        IF t = 0 THEN dst[r]
        ELSE IF Kept(i, l, t, n, cap) /\ t <= Len(src) /\ Slot(i, l, t, cap) = r
             THEN RowAdd(acc(r, t - 1), RowScale(w[t], src[t]))
             ELSE acc(r, t - 1)
  IN [r \in DOMAIN dst |-> acc(r, n)]

\* backward-data gather: out[t] = gate * buf[index*capacity + location], and
\* zero for a token with location >= capacity; rows the primitive does not
\* reach keep the content of the uninitialised (torch.empty) buffer
backward_data_gather(w, i, l, buf, rows, dim, n, cap, junk) ==
  [t \in 1..rows |->
     IF Kept(i, l, t, n, cap) /\ Slot(i, l, t, cap) <= Len(buf)
     THEN RowScale(w[t], buf[Slot(i, l, t, cap)])
     ELSE IF t <= n /\ t <= Len(l) /\ l[t] >= cap THEN ZeroRow(dim)
     ELSE [f \in 1..dim |-> junk[Min(t, Len(junk))]]]

\* backward-gate reduce: out[t] = dot(lhs[t], rhs[index*capacity + location])
backward_gate_reduce(i, l, lhs, rhs, rows, n, cap, junk) ==
  [t \in 1..rows |->
     IF Kept(i, l, t, n, cap) /\ t <= Len(lhs) /\ Slot(i, l, t, cap) <= Len(rhs)
     THEN Dot(lhs[t], rhs[Slot(i, l, t, cap)])
     ELSE IF t <= n /\ t <= Len(l) /\ l[t] >= cap THEN Zero
     ELSE junk[Min(t, Len(junk))]]

(***************************************************************************)
(* TutelMoeFastDispatcher.__init__                                         *)
(***************************************************************************)
TutelMoeFastDispatcher(num_global_experts, capacity, model_dim, dispatch_dtype) ==
  LET dtype == IF IS_HIP_EXTENSION \/ dispatch_dtype # "float16"
               THEN "float32" ELSE dispatch_dtype
  IN [num_global_experts |-> num_global_experts,
      capacity |-> capacity,
      model_dim |-> model_dim,
      dtype |-> dtype,
      original_dtype |-> dispatch_dtype,
      aligned_dim |-> model_dim \div (IF dtype = "float16" THEN 2 ELSE 1),
      is_cuda |-> "None",
      \* attributes that exist only after update
      indices_ |-> <<>>, locations_ |-> <<>>, gates_ |-> <<>>,
      is_postscore |-> TRUE, sample_size |-> 0,
      func_fwd |-> NoHandle, func_bwd_data |-> NoHandle, func_bwd_gate |-> NoHandle,
      ones_helper |-> NoOnes]

NoDispatcher == TutelMoeFastDispatcher(0, 0, 0, "none")

(***************************************************************************)
(* TutelMoeFastDispatcher.update; is_cuda is indices_[0].is_cuda.  The     *)
(* result is the object, the pool and the exception raised, if any.        *)
(***************************************************************************)
\* lines 101-110: the kernel handles and ones_helper of the object
bind_kernels(self, pool, is_cuda) ==
  IF self.is_cuda = is_cuda THEN [self |-> self, pool |-> pool, raised |-> "none"]
  ELSE
    LET s == [self EXCEPT !.is_cuda = is_cuda]
    IN IF is_cuda \notin DOMAIN pool
       THEN IF ~Supported(self.dtype, is_cuda)
            THEN [self |-> s, pool |-> pool, raised |-> "unsupported dtype"]
            ELSE LET entry == [func_fwd |-> create_kernel("forward", self.dtype, is_cuda),
                               func_bwd_data |-> create_kernel("backward_data", self.dtype, is_cuda),
                               func_bwd_gate |-> create_kernel("backward_gate", self.dtype, is_cuda),
                               ones_helper |-> OnesTensor(self.sample_size, self.dtype, is_cuda)]
                 IN [self |-> [s EXCEPT !.func_fwd = entry.func_fwd,
                                        !.func_bwd_data = entry.func_bwd_data,
                                        !.func_bwd_gate = entry.func_bwd_gate,
                                        !.ones_helper = entry.ones_helper],
                     pool |-> [k \in DOMAIN pool \cup {is_cuda} |->
                                 IF k = is_cuda THEN entry ELSE pool[k]],
                     raised |-> "none"]
       ELSE [self |-> [s EXCEPT !.func_fwd = pool[is_cuda].func_fwd,
                                !.func_bwd_data = pool[is_cuda].func_bwd_data,
                                !.func_bwd_gate = pool[is_cuda].func_bwd_gate,
                                !.ones_helper = pool[is_cuda].ones_helper],
             pool |-> pool, raised |-> "none"]

update(self, pool, indices_, locations_, gates_, capacity, is_postscore, is_cuda) ==
  bind_kernels([self EXCEPT !.indices_ = indices_,
                            !.locations_ = locations_,
                            !.gates_ = [k \in DOMAIN gates_ |-> GatesTensor(self.dtype, gates_[k])],
                            !.is_postscore = is_postscore,
                            !.sample_size = Len(indices_[1]),
                            !.capacity = IF capacity # 0 THEN capacity ELSE self.capacity],
               pool, is_cuda)

(***************************************************************************)
(* GatingEncoder / GatingDecoder.  config is the dispatcher object; the    *)
(* context keeps a reference to it, not a copy.  used_config records what  *)
(* a pass hands to the primitives.                                         *)
(***************************************************************************)
used_config(config) ==
  [indices_ |-> config.indices_, locations_ |-> config.locations_,
   capacity |-> config.capacity,
   token_count |-> IF config.indices_ = <<>> THEN 0 ELSE Len(config.indices_[1])]

\* lines 18-21 and 51-54
gates_h2(config, gates_) ==
  IF gates_ # <<>> THEN gates_
  ELSE [k \in DOMAIN config.indices_ |-> config.ones_helper]

\* the streams of zip(gates_h2, indices_, locations_)
Streams(g, config) == 1..Min(Len(g), Min(Len(config.indices_), Len(config.locations_)))

Raised(status, fault) ==
  IF status \in {"AttributeError", "unsupported dtype"} THEN status
  ELSE IF status = "undefined" /\ fault THEN "kernel fault"
  ELSE "none"

NoCtx == [state |-> "none"]

GatingEncoder_forward(config, reshaped_input, gates_, junk, fault) ==
  LET g == gates_h2(config, gates_)
      n == Len(config.indices_[1])
      status == KernelStatus(config.func_fwd, g[1].dtype, reshaped_input.dtype)
      RECURSIVE scatter(_)
      scatter(k) ==
        IF k = 0 THEN zeros(config.num_global_experts * config.capacity, config.model_dim)
        ELSE forward_scatter(GateVector(g[k], n, status, junk), config.indices_[k],
                             config.locations_[k], reshaped_input.val, scatter(k - 1),
                             n, config.capacity)
      raised == Raised(status, fault)
  IN [raised |-> raised,
      out |-> IF raised = "none"
              THEN [dtype |-> reshaped_input.dtype, val |-> scatter(Max(Streams(g, config)))]
              ELSE [dtype |-> "none", val |-> <<>>],
      ctx |-> IF raised = "none"
              THEN [state |-> "pending", op |-> "encode", saved |-> reshaped_input,
                    gates_h2 |-> g, fwd |-> used_config(config)]
              ELSE NoCtx]

GatingDecoder_forward(config, expert_output, gates_, junk, fault) ==
  LET g == gates_h2(config, gates_)
      n == Len(config.indices_[1])
      status == KernelStatus(config.func_bwd_data, g[1].dtype, expert_output.dtype)
      single_output(k) ==
        backward_data_gather(GateVector(g[k], n, status, junk), config.indices_[k],
                             config.locations_[k], expert_output.val, config.sample_size,
                             config.model_dim, n, config.capacity, junk)
      RECURSIVE gather(_)
      gather(k) ==
        IF k = 1 THEN single_output(1)
        ELSE LET a == gather(k - 1)
                 b == single_output(k)
             IN [t \in DOMAIN a |-> RowAdd(a[t], b[t])]
      raised == Raised(status, fault)
  IN [raised |-> raised,
      out |-> IF raised = "none"
              THEN [dtype |-> expert_output.dtype, val |-> gather(Max(Streams(g, config)))]
              ELSE [dtype |-> "none", val |-> <<>>],
      ctx |-> IF raised = "none"
              THEN [state |-> "pending", op |-> "decode", saved |-> expert_output,
                    gates_h2 |-> g, fwd |-> used_config(config)]
              ELSE NoCtx]

\* TutelMoeFastDispatcher.encode / decode
encode(self, data, junk, fault) ==
  LET r == GatingEncoder_forward(self, to(data, self.dtype),
                                 IF self.is_postscore THEN <<>> ELSE self.gates_, junk, fault)
  IN [r EXCEPT !.out = IF r.raised = "none" THEN to(r.out, self.original_dtype) ELSE r.out]

decode(self, data, junk, fault) ==
  LET r == GatingDecoder_forward(self, to(data, self.dtype),
                                 IF self.is_postscore THEN self.gates_ ELSE <<>>, junk, fault)
  IN [r EXCEPT !.out = IF r.raised = "none" THEN to(r.out, self.original_dtype) ELSE r.out]

\* GatingEncoder.backward / GatingDecoder.backward: config is the object the
\* context refers to, as it is when the backward pass runs
gate_gradients_wanted(c, config) == c.gates_h2[1] # config.ones_helper

GatingEncoder_backward(c, config, grad, junk, fault) ==
  LET g == c.gates_h2
      n == Len(config.indices_[1])
      dim == Len(c.saved.val[1])
      status == KernelStatus(config.func_bwd_data, g[1].dtype, grad.dtype)
      grad_data(k) ==
        backward_data_gather(GateVector(g[k], n, status, junk), config.indices_[k],
                             config.locations_[k], grad.val, Len(c.saved.val), dim,
                             n, config.capacity, junk)
      RECURSIVE gather(_)
      gather(k) ==
        IF k = 1 THEN grad_data(1)
        ELSE LET a == gather(k - 1)
                 b == grad_data(k)
             IN [t \in DOMAIN a |-> RowAdd(a[t], b[t])]
      gate_status == KernelStatus(config.func_bwd_gate, grad.dtype, grad.dtype)
      grad_gates ==
        IF gate_gradients_wanted(c, config)
        THEN [k \in 1..Min(Len(config.indices_), Len(config.locations_)) |->
                backward_gate_reduce(config.indices_[k], config.locations_[k], c.saved.val,
                                     grad.val, config.sample_size, n, config.capacity, junk)]
        ELSE <<>>
      raised == IF Raised(status, fault) # "none" THEN Raised(status, fault)
                ELSE IF gate_gradients_wanted(c, config) THEN Raised(gate_status, fault)
                ELSE "none"
  IN [raised |-> raised,
      grad_input |-> IF raised = "none" THEN gather(Max(Streams(g, config))) ELSE <<>>,
      grad_gates |-> IF raised = "none" THEN grad_gates ELSE <<>>,
      bwd |-> used_config(config)]

GatingDecoder_backward(c, config, grad, junk, fault) ==
  LET g == c.gates_h2
      n == Len(config.indices_[1])
      dim == Len(grad.val[1])
      status == KernelStatus(config.func_fwd, g[1].dtype, grad.dtype)
      RECURSIVE scatter(_)
      scatter(k) ==
        IF k = 0 THEN zeros(Len(c.saved.val), dim)
        ELSE forward_scatter(GateVector(g[k], n, status, junk), config.indices_[k],
                             config.locations_[k], grad.val, scatter(k - 1),
                             n, config.capacity)
      gate_status == KernelStatus(config.func_bwd_gate, grad.dtype, grad.dtype)
      grad_gates ==
        IF gate_gradients_wanted(c, config)
        THEN [k \in 1..Min(Len(config.indices_), Len(config.locations_)) |->
                backward_gate_reduce(config.indices_[k], config.locations_[k], grad.val,
                                     c.saved.val, config.sample_size, n, config.capacity, junk)]
        ELSE <<>>
      raised == IF Raised(status, fault) # "none" THEN Raised(status, fault)
                ELSE IF gate_gradients_wanted(c, config) THEN Raised(gate_status, fault)
                ELSE "none"
  IN [raised |-> raised,
      grad_input |-> IF raised = "none" THEN scatter(Max(Streams(g, config))) ELSE <<>>,
      grad_gates |-> IF raised = "none" THEN grad_gates ELSE <<>>,
      bwd |-> used_config(config)]

(***************************************************************************)
(* The dispatch path as a state machine.                                   *)
(***************************************************************************)
\* what memory outside a tensor, or read as the wrong type, may hold
Garbage == {<<0, 1>>, <<2, 1>>}

NoTensor == [dtype |-> "none", val |-> <<>>]

\* critical_data as extract_critical returns it
CriticalData(r) ==
  [num_global_experts |-> r.num_global_experts, indices_s |-> r.indices_s,
   locations_s |-> r.locations_s, gates_s |-> r.gates_s, capacity |-> r.capacity]

NoCritical ==
  [num_global_experts |-> 0, indices_s |-> <<>>, locations_s |-> <<>>,
   gates_s |-> <<>>, capacity |-> 0]

LastCall(op, raised, out, data, crit, is_postscore) ==
  [op |-> op, raised |-> raised, out |-> out, data |-> data, crit |-> crit,
   is_postscore |-> is_postscore]

NoCall == LastCall("none", "none", NoTensor, NoTensor, NoCritical, TRUE)

\* the first gate tensor a forward pass of the object would hand to a primitive
FirstGate(self, with_gates) == IF with_gates THEN self.gates_[1] ELSE self.ones_helper

\* the choices of memory content and of fault that a pass can meet
Junks(n, defined) ==
  IF defined THEN {[t \in 1..n |-> One]} ELSE [1..n -> Garbage]

Faults(status) == IF status = "undefined" THEN BOOLEAN ELSE {FALSE}

ForwardDefined(self, handle, with_gates, data_dtype) ==
  /\ KernelStatus(handle, FirstGate(self, with_gates).dtype, data_dtype) # "undefined"
  /\ Weights(FirstGate(self, with_gates)) >= self.sample_size

InitDispatch ==
  /\ IS_HIP_EXTENSION \in BOOLEAN
  /\ kernel_pool = <<>>
  /\ dispatcher = NoDispatcher
  /\ ctx = NoCtx
  /\ last = NoCall

\* dispatcher = TutelMoeFastDispatcher(num_global_experts, capacity, model_dim, dtype)
Construct(num_global_experts, capacity, model_dim, dispatch_dtype) ==
  /\ dispatcher' = TutelMoeFastDispatcher(num_global_experts, capacity, model_dim,
                                          dispatch_dtype)
  /\ ctx' = NoCtx
  /\ last' = LastCall("init", "none", NoTensor, NoTensor, NoCritical, TRUE)
  /\ UNCHANGED <<pc, call, ret, IS_HIP_EXTENSION, kernel_pool>>

\* dispatcher.update(*critical_data[1:], is_postscore), critical_data being
\* the result of extract_critical on the arguments args, its tensors on the
\* device class is_cuda
Update(args, critical_data, is_postscore, is_cuda) ==
  /\ dispatcher.model_dim > 0
  /\ dispatcher.num_global_experts = critical_data.num_global_experts
  /\ LET u == update(dispatcher, kernel_pool, critical_data.indices_s,
                     critical_data.locations_s, critical_data.gates_s,
                     critical_data.capacity, is_postscore, is_cuda)
     IN /\ dispatcher' = u.self
        /\ kernel_pool' = u.pool
        /\ last' = LastCall("update", u.raised, NoTensor, NoTensor,
                            CriticalData(critical_data), is_postscore)
  /\ pc' = "return"
  /\ call' = args
  /\ ret' = critical_data
  /\ UNCHANGED <<IS_HIP_EXTENSION, ctx>>

\* dispatcher.encode(data), data of shape [sample_size, model_dim]
Encode(rows) ==
  /\ dispatcher.indices_ # <<>>
  /\ LET data == [dtype |-> dispatcher.original_dtype,
                  val |-> [t \in 1..dispatcher.sample_size |-> rows]]
         with_gates == ~dispatcher.is_postscore
         status == KernelStatus(dispatcher.func_fwd,
                                FirstGate(dispatcher, with_gates).dtype, dispatcher.dtype)
     IN \E junk \in Junks(dispatcher.sample_size,
                          ForwardDefined(dispatcher, dispatcher.func_fwd, with_gates,
                                         dispatcher.dtype)) :
          \E fault \in Faults(status) :
            LET r == encode(dispatcher, data, junk, fault)
            IN /\ ctx' = r.ctx
               /\ last' = LastCall("encode", r.raised, r.out, data, NoCritical,
                                   dispatcher.is_postscore)
  /\ UNCHANGED <<pc, call, ret, IS_HIP_EXTENSION, kernel_pool, dispatcher>>

\* dispatcher.decode(data), data of shape [num_global_experts * capacity, model_dim]
Decode(rows) ==
  /\ dispatcher.indices_ # <<>>
  /\ LET data == [dtype |-> dispatcher.original_dtype,
                  val |-> [r \in 1..(dispatcher.num_global_experts * dispatcher.capacity)
                             |-> rows]]
         with_gates == dispatcher.is_postscore
         status == KernelStatus(dispatcher.func_bwd_data,
                                FirstGate(dispatcher, with_gates).dtype, dispatcher.dtype)
     IN \E junk \in Junks(dispatcher.sample_size,
                          ForwardDefined(dispatcher, dispatcher.func_bwd_data, with_gates,
                                         dispatcher.dtype)) :
          \E fault \in Faults(status) :
            LET r == decode(dispatcher, data, junk, fault)
            IN /\ ctx' = r.ctx
               /\ last' = LastCall("decode", r.raised, r.out, data, NoCritical,
                                   dispatcher.is_postscore)
  /\ UNCHANGED <<pc, call, ret, IS_HIP_EXTENSION, kernel_pool, dispatcher>>

\* the backward pass of the pending forward pass, the upstream gradient
\* having every row equal to rows
Backward(rows) ==
  /\ ctx.state = "pending"
  /\ LET shape == IF ctx.op = "encode"
                  THEN ctx.fwd.capacity * dispatcher.num_global_experts
                  ELSE Len(ctx.fwd.indices_[1])
         grad == [dtype |-> ctx.saved.dtype, val |-> [r \in 1..shape |-> rows]]
         handle == IF ctx.op = "encode" THEN dispatcher.func_bwd_data
                   ELSE dispatcher.func_fwd
         status == KernelStatus(handle, ctx.gates_h2[1].dtype, grad.dtype)
         n == Max({Len(dispatcher.indices_[1]), Len(ctx.saved.val), 1})
         defined == /\ status # "undefined"
                    /\ used_config(dispatcher) = ctx.fwd
                    /\ Weights(ctx.gates_h2[1]) >= Len(dispatcher.indices_[1])
     IN \E junk \in Junks(n, defined) :
          \E fault \in Faults(status) :
            LET b == IF ctx.op = "encode"
                     THEN GatingEncoder_backward(ctx, dispatcher, grad, junk, fault)
                     ELSE GatingDecoder_backward(ctx, dispatcher, grad, junk, fault)
            IN /\ ctx' = [state |-> "done", op |-> ctx.op, saved |-> ctx.saved,
                          gates_h2 |-> ctx.gates_h2, fwd |-> ctx.fwd, bwd |-> b.bwd,
                          grad_input |-> b.grad_input, grad_gates |-> b.grad_gates]
               /\ last' = LastCall("backward", b.raised, NoTensor, grad, NoCritical,
                                   dispatcher.is_postscore)
  /\ UNCHANGED <<pc, call, ret, IS_HIP_EXTENSION, kernel_pool, dispatcher>>

\* fast_encode(data, critical_data, is_postscore), critical_data being the
\* result of extract_critical on the arguments args, data of dtype dtype on
\* the device class is_cuda
FastEncode(args, critical_data, val, dtype, is_postscore, is_cuda) ==
  /\ last = NoCall
  /\ Len(val) = Len(args.gates)
  /\ pc' = "return"
  /\ call' = args
  /\ ret' = critical_data
  /\ LET data == [dtype |-> dtype, val |-> val]
         d == TutelMoeFastDispatcher(critical_data.num_global_experts, 0, Len(val[1]),
                                     dtype)
         u == update(d, kernel_pool, critical_data.indices_s, critical_data.locations_s,
                     critical_data.gates_s, critical_data.capacity, is_postscore, is_cuda)
         status == KernelStatus(u.self.func_fwd, FirstGate(u.self, ~is_postscore).dtype,
                                u.self.dtype)
     IN /\ dispatcher' = u.self
        /\ kernel_pool' = u.pool
        /\ ctx' = NoCtx
        /\ IF u.raised # "none"
           THEN last' = LastCall("fast_encode", u.raised, NoTensor, data,
                                 CriticalData(critical_data), is_postscore)
           ELSE \E junk \in Junks(u.self.sample_size,
                                  ForwardDefined(u.self, u.self.func_fwd, ~is_postscore,
                                                 u.self.dtype)) :
                  \E fault \in Faults(status) :
                    LET y == encode(u.self, data, junk, fault)
                    IN last' = LastCall("fast_encode", y.raised, y.out, data,
                                        CriticalData(critical_data), is_postscore)
  /\ UNCHANGED IS_HIP_EXTENSION

\* fast_decode(y, critical_data, is_postscore) on the result y of the last
\* fast_encode (the expert being the identity), with the same critical_data
FastDecode ==
  /\ last.op = "fast_encode"
  /\ last.raised = "none"
  /\ LET is_postscore == last.is_postscore
         is_cuda == dispatcher.is_cuda
         d == TutelMoeFastDispatcher(ret.num_global_experts, 0, Len(last.data.val[1]),
                                     last.out.dtype)
         u == update(d, kernel_pool, ret.indices_s, ret.locations_s, ret.gates_s,
                     ret.capacity, is_postscore, is_cuda)
         status == KernelStatus(u.self.func_bwd_data,
                                FirstGate(u.self, is_postscore).dtype, u.self.dtype)
     IN /\ dispatcher' = u.self
        /\ kernel_pool' = u.pool
        /\ ctx' = NoCtx
        /\ IF u.raised # "none"
           THEN last' = LastCall("fast_decode", u.raised, NoTensor, last.data,
                                 CriticalData(ret), is_postscore)
           ELSE \E junk \in Junks(u.self.sample_size,
                                  ForwardDefined(u.self, u.self.func_bwd_data,
                                                 is_postscore, u.self.dtype)) :
                  \E fault \in Faults(status) :
                    LET r == decode(u.self, last.out, junk, fault)
                    IN last' = LastCall("fast_decode", r.raised, r.out, last.data,
                                        CriticalData(ret), is_postscore)
  /\ UNCHANGED <<pc, call, ret, IS_HIP_EXTENSION>>

\* the caller drops the tensors of its last fast_encode / fast_decode and
\* with them the dispatcher the call had made; the class-level kernel_pool
\* stays
Release ==
  /\ last.op \in {"fast_encode", "fast_decode"}
  /\ last' = NoCall
  /\ dispatcher' = NoDispatcher
  /\ call' = NoArgs
  /\ ret' = NoReturn
  /\ UNCHANGED <<pc, IS_HIP_EXTENSION, kernel_pool, ctx>>

(***************************************************************************)
(* The slot assigner as a state machine: a call with its arguments, then   *)
(* its return value.                                                       *)
(***************************************************************************)
Shapes == {sh \in (1..MaxTokens) \X (1..MaxExperts) : sh[1] * sh[2] <= MaxCells}

GateMatrices == UNION {[1..sh[1] -> [0..(sh[2] - 1) -> Scores]] : sh \in Shapes}

InitAssign ==
  /\ pc = "call"
  /\ ret = NoReturn
  /\ InitDispatch
  /\ IS_HIP_EXTENSION = FALSE
  /\ \E g \in GateMatrices, cf \in CapacityFactors, prio \in BOOLEAN :
       \E k \in 1..Cardinality(DOMAIN g[1]) : call = Args(g, k, cf, prio)

ExtractCritical ==
  /\ pc = "call"
  /\ pc' = "return"
  /\ ret' \in Returns(call)
  /\ UNCHANGED <<call, IS_HIP_EXTENSION, kernel_pool, dispatcher, ctx, last>>

NextAssign == ExtractCritical

SpecAssign == InitAssign /\ [][NextAssign]_vars

(***************************************************************************)
(* The public path fast_encode / fast_decode in one process, the tensors   *)
(* on the accelerator: gate matrices routing every token to one expert     *)
(* with a non-zero score, top_k = 1.                                       *)
(***************************************************************************)
MaxRouteTokens == 2
MaxRouteExperts == 2
RouteScores == {1, 2}
RouteFactors == {<<1, 2>>, <<1, 1>>}
Dtypes == {"float16", "float32"}

SparseRows(E) ==
  {row \in [0..(E - 1) -> RouteScores \cup {0}] :
     Cardinality({e \in 0..(E - 1) : row[e] # 0}) = 1}

RouteGates ==
  UNION {[1..T -> SparseRows(E)] : T \in 1..MaxRouteTokens, E \in 1..MaxRouteExperts}

RouteArgs ==
  {Args(g, 1, cf, prio) : g \in RouteGates, cf \in RouteFactors, prio \in BOOLEAN}

RouteCalls == Calls(RouteArgs)

\* the data of a batch of T tokens: distinct non-zero rows (model_dim = 2)
DataFor(T) == [t \in 1..T |-> <<<<t, 1>>, <<1, 1>>>>]

InitProcess ==
  /\ pc = "return"
  /\ call = NoArgs
  /\ ret = NoReturn
  /\ InitDispatch

NextRoute ==
  \/ \E c \in RouteCalls, dtype \in Dtypes, is_postscore \in BOOLEAN :
       FastEncode(c.args, c.critical_data, DataFor(Len(c.args.gates)), dtype,
                  is_postscore, "True")
  \/ FastDecode
  \/ Release

SpecRoute == InitProcess /\ [][NextRoute]_vars

(***************************************************************************)
(* Dispatcher objects in one process: construction, update, encode and     *)
(* decode, for batches of 1..MaxBatch tokens of one expert.                *)
(***************************************************************************)
MaxBatch == 3
AllDtypes == {"float16", "float32", "float64"}
Devices == {"True", "False"}

BindArgs ==
  {Args([t \in 1..T |-> [e \in {0} |-> 1]], 1, <<1, 1>>, FALSE) : T \in 1..MaxBatch}

BindCalls == Calls(BindArgs)

NextBind ==
  \/ \E dtype \in AllDtypes : Construct(1, 0, 2, dtype)
  \/ \E c \in BindCalls, is_postscore \in BOOLEAN, is_cuda \in Devices :
       Update(c.args, c.critical_data, is_postscore, is_cuda)
  \/ Encode(<<One, One>>)
  \/ Decode(<<One, One>>)

Spec == InitProcess /\ [][NextBind]_vars

(***************************************************************************)
(* Forward and backward passes of one float32 dispatcher on the CPU, with  *)
(* update calls between them.                                              *)
(***************************************************************************)
MaxGradTokens == 2
GradFactors == {<<1, 2>>, <<1, 1>>}

GradArgs ==
  {Args([t \in 1..T |-> [e \in {0} |-> 1]], 1, cf, FALSE) :
     T \in 1..MaxGradTokens, cf \in GradFactors}

GradCalls == Calls(GradArgs)

NextGrad ==
  \/ Construct(1, 0, 2, "float32")
  \/ \E c \in GradCalls, is_postscore \in BOOLEAN :
       Update(c.args, c.critical_data, is_postscore, "False")
  \/ Encode(<<One, One>>)
  \/ Decode(<<One, One>>)
  \/ Backward(<<One, One>>)

SpecGrad == InitProcess /\ [][NextGrad]_vars

(***************************************************************************)
(* Properties of the slot assigner.                                        *)
(***************************************************************************)
Tokens == DOMAIN call.gates
Ranks == 1..call.top_k
Returned == pc = "return"

\* position of token t in the order the locations are computed in: the
\* argsort of the importance scores under priority routing, else token order
ScanPos(t) == CHOOSE i \in Tokens : ret.order[i] = t

\* tokens assigned to expert e at rank k that are scanned before token t
Before(t, k, e) ==
  {u \in Tokens : ret.indices_s[k][u] = e /\ ScanPos(u) < ScanPos(t)}

\* (token, rank) assignments to expert e at the ranks below k
AssignedBelow(k, e) ==
  {a \in Tokens \X Ranks : a[2] < k /\ ret.indices_s[a[2]][a[1]] = e}

\* C1: at each rank, two distinct tokens of the same expert whose locations
\* are both below capacity never have the same location.
Thm_C1 ==
  Returned =>
    \A k \in Ranks : \A t1, t2 \in Tokens :
      (/\ t1 # t2
       /\ ret.indices_s[k][t1] = ret.indices_s[k][t2]
       /\ ret.locations_s[k][t1] < ret.capacity
       /\ ret.locations_s[k][t2] < ret.capacity)
      => ret.locations_s[k][t1] # ret.locations_s[k][t2]

Wit_C1 ==
  /\ Returned
  /\ call.batch_prioritized_routing
  /\ \E k \in Ranks : \E t1, t2 \in Tokens :
       /\ t1 # t2
       /\ k > 1
       /\ ret.indices_s[k][t1] = ret.indices_s[k][t2]
       /\ ret.locations_s[k][t1] < ret.capacity
       /\ ret.locations_s[k][t2] < ret.capacity

\* ceil(num_tokens / num_global_experts) and floor(capacity_factor * n),
\* by their defining inequalities
CeilTokensPerExpert ==
  CHOOSE n \in 0..Len(call.gates) :
    /\ n * ret.num_global_experts >= Len(call.gates)
    /\ (n - 1) * ret.num_global_experts < Len(call.gates)

FloorScaled ==
  CHOOSE m \in 0..(call.capacity_factor[1] * Len(call.gates)) :
    /\ m * call.capacity_factor[2] <= call.capacity_factor[1] * CeilTokensPerExpert
    /\ (m + 1) * call.capacity_factor[2] > call.capacity_factor[1] * CeilTokensPerExpert

\* C2 as claimed: capacity = top_k * capacity_factor * ceil(T / E), also for
\* fractional factors (the equation multiplied by the factor's denominator).
CE_C2 ==
  Returned =>
    ret.capacity * call.capacity_factor[2]
      = call.top_k * call.capacity_factor[1] * CeilTokensPerExpert

\* C2 amended: capacity = top_k * floor(capacity_factor * ceil(T / E)).
Thm_C2 == Returned => ret.capacity = call.top_k * FloorScaled

Wit_C2 ==
  /\ Returned
  /\ (call.capacity_factor[1] * CeilTokensPerExpert) % call.capacity_factor[2] # 0
  /\ ret.capacity > 0

\* C4: under priority routing, of two tokens of the same expert at a rank
\* the one with the strictly greater top-1 gate score has the strictly
\* smaller location, and each token (in original token order) holds the
\* slot of its position in the priority order among its expert's tokens.
Thm_C4 ==
  (Returned /\ call.batch_prioritized_routing) =>
    /\ \A k \in Ranks : \A t1, t2 \in Tokens :
         (/\ ret.indices_s[k][t1] = ret.indices_s[k][t2]
          /\ Max(Range(call.gates[t1])) > Max(Range(call.gates[t2])))
         => ret.locations_s[k][t1] < ret.locations_s[k][t2]
    /\ \A t \in Tokens :
         ret.locations_s[1][t] = Cardinality(Before(t, 1, ret.indices_s[1][t]))

Wit_C4 ==
  /\ Returned
  /\ call.batch_prioritized_routing
  /\ \E k \in Ranks : \E t1, t2 \in Tokens :
       /\ t1 > t2
       /\ ret.indices_s[k][t1] = ret.indices_s[k][t2]
       /\ Max(Range(call.gates[t1])) > Max(Range(call.gates[t2]))

\* C7: at every rank above the first, a token's location is the number of
\* assignments to its expert at the lower ranks plus its 0-based position
\* among the tokens of that expert at its rank (in the order the locations
\* are computed in); so no two (token, rank) assignments to one expert have
\* the same location.
Thm_C7 ==
  Returned =>
    /\ \A k \in Ranks : \A t \in Tokens :
         k > 1 =>
           LET e == ret.indices_s[k][t]
           IN ret.locations_s[k][t]
                = Cardinality(AssignedBelow(k, e)) + Cardinality(Before(t, k, e))
    /\ \A a, b \in Tokens \X Ranks :
         (a # b /\ ret.indices_s[a[2]][a[1]] = ret.indices_s[b[2]][b[1]])
         => ret.locations_s[a[2]][a[1]] # ret.locations_s[b[2]][b[1]]

Wit_C7 ==
  /\ Returned
  /\ \E k \in Ranks : \E t \in Tokens :
       /\ k > 1
       /\ Cardinality(AssignedBelow(k, ret.indices_s[k][t])) > 0
       /\ Cardinality(Before(t, k, ret.indices_s[k][t])) > 0


(***************************************************************************)
(* Properties of the dispatch path.                                        *)
(***************************************************************************)
Handles == {dispatcher.func_fwd, dispatcher.func_bwd_data, dispatcher.func_bwd_gate}

Bound == \A h \in Handles : h.op # "unbound"

\* an update of the dispatcher has returned and its handles are bound
Updated == last.op = "update" /\ last.raised = "none" /\ Bound

\* C8: the handles an update leaves bound to a dispatcher were created for
\* the dispatcher's own compute dtype.
CE_C8 == Updated => \A h \in Handles : h.dtype = dispatcher.dtype

\* C6: an encode or decode of a dispatcher whose update bound its handles
\* never raises for an unsupported dtype.
CE_C6 ==
  (last.op \in {"encode", "decode"} /\ Bound) => last.raised # "unsupported dtype"

\* C10: after a successful update the all-ones weight of the dispatcher
\* holds a weight for every token of that update.
CE_C10 ==
  (Updated /\ dispatcher.ones_helper.kind = "ones")
    => Weights(dispatcher.ones_helper) >= dispatcher.sample_size

\* C9: a backward pass hands to the primitives the indices, locations,
\* capacity and token count that its forward pass handed to them.
CE_C9 == ctx.state = "done" => ctx.bwd = ctx.fwd

\* the top-1 gate score of a token of the routed batch
TopScore(t) == Max(Range(call.gates[t]))

\* a batch of 2 * capacity tokens, all routed to one expert, after fast_encode
Overflow ==
  /\ last.op = "fast_encode"
  /\ last.raised = "none"
  /\ call.top_k = 1
  /\ ret.capacity > 0
  /\ Len(call.gates) = 2 * ret.capacity
  /\ \A t \in Tokens : ret.indices_s[1][t] = ret.indices_s[1][1]

\* the sets of capacity tokens that are to reach the buffer
KeptSets ==
  {K \in SUBSET Tokens :
     /\ Cardinality(K) = ret.capacity
     /\ \A t \in K, u \in Tokens \ K :
          IF call.batch_prioritized_routing THEN TopScore(t) >= TopScore(u) ELSE t < u}

\* the buffer to which exactly the tokens of K contribute, token t with the
\* weight w[t], each at its slot
Contribution(K, w) ==
  forward_scatter(w, ret.indices_s[1],
                  [t \in Tokens |-> IF t \in K THEN ret.locations_s[1][t] ELSE ret.capacity],
                  last.data.val,
                  zeros(ret.num_global_experts * ret.capacity, Len(last.data.val[1])),
                  Len(call.gates), ret.capacity)

\* C3: of 2 * capacity tokens routed to one expert exactly capacity reach
\* the dispatched buffer, those of lowest index, or of highest top-1 score
\* under priority routing; the others leave nothing in it.
CE_C3 ==
  Overflow =>
    \E K \in KeptSets : \E w \in [Tokens -> {One, <<2, 1>>}] :
      last.out.val = Contribution(K, w)

\* a one-hot gate matrix
OneHot(g) ==
  \A t \in DOMAIN g :
    /\ \A e \in DOMAIN g[t] : g[t][e] \in {0, 1}
    /\ Cardinality({e \in DOMAIN g[t] : g[t][e] = 1}) = 1

\* fast_decode was applied to the result of fast_encode, the gates one-hot
\* and no token dropped
RoundTrip ==
  /\ last.op = "fast_decode"
  /\ call.top_k = 1
  /\ OneHot(call.gates)
  /\ \A t \in Tokens : ret.locations_s[1][t] < ret.capacity

\* C5: for one-hot gates, top_k = 1 and no token dropped,
\* fast_decode(fast_encode(x, c, p), c, p) = x for p true and p false.
CE_C5 == RoundTrip => last.raised = "none" /\ last.out.val = last.data.val

====
